---- MODULE Spec2Model ----
(***************************************************************************)
(* Duplicate-detection and merge engine of scripts/merge_zotero_duplicates *)
(* (PaperPilot).  A run lists the top-level items of a Zotero library,     *)
(* groups them by a canonical key, and for every group of two or more      *)
(* keeps the best-scored item, re-parents the losers' unique children to   *)
(* it, deletes the losers and updates the survivor's collections and tags. *)
(*                                                                         *)
(* Text is modelled as a sequence of one-character strings; the two DOI    *)
(* resolver prefixes "https://doi.org/" and "http://doi.org/" are single   *)
(* symbols of the alphabet.  The record store is the Zotero Web API seen   *)
(* through ZoteroAPI: an update or delete is accepted only when the        *)
(* If-Unmodified-Since-Version stamp equals the item's current version.    *)
(***************************************************************************)
EXTENDS Integers, Sequences, FiniteSets, TLC

(***************************************************************************)
(* Bounds of the model.                                                    *)
(***************************************************************************)
\* number of top-level items in the library
MaxTop == 4
\* number of child items (attachments and notes) in the library
MaxChildren == 3
\* number of writes another actor makes to the library during the run
MaxOtherWrites == 1

(***************************************************************************)
(* Text helpers (Python str methods and the re.sub calls of the script).   *)
(***************************************************************************)
Whitespace == {" ", "\t"}

Digits == {"0", "1", "2", "3", "4", "5", "6", "7", "8", "9"}

LowerLetters == {"a", "b", "d", "e", "f", "l", "n", "p", "r", "s", "x", "y"}

\* str.lower on one symbol
LowerChar(c) ==
    CASE c = "A" -> "a"
      [] c = "D" -> "d"
      [] c = "F" -> "f"
      [] c = "P" -> "p"
      [] c = "S" -> "s"
      [] c = "X" -> "x"
      [] c = "Y" -> "y"
      [] c = "HTTPS://DOI.ORG/" -> "https://doi.org/"
      [] c = "HTTP://DOI.ORG/" -> "http://doi.org/"
      [] OTHER -> c

\* str.lower
Lower(s) == [i \in 1..Len(s) |-> LowerChar(s[i])]

\* str.lstrip()
RECURSIVE LStrip(_)
LStrip(s) ==
    IF s # <<>> /\ Head(s) \in Whitespace THEN LStrip(Tail(s)) ELSE s

\* str.rstrip(chars)
RECURSIVE RStripSet(_, _)
RStripSet(s, chars) ==
    IF s # <<>> /\ s[Len(s)] \in chars
    THEN RStripSet(SubSeq(s, 1, Len(s) - 1), chars)
    ELSE s

\* str.strip()
Strip(s) == RStripSet(LStrip(s), Whitespace)

\* re.sub(r"\s+", " ", s): every run of whitespace becomes one blank
RECURSIVE CollapseWs(_)
CollapseWs(s) ==
    IF s = <<>> THEN <<>>
    ELSE IF Head(s) \in Whitespace
         THEN <<" ">> \o CollapseWs(LStrip(s))
         ELSE <<Head(s)>> \o CollapseWs(Tail(s))

\* s.split("#", 1)[0]
RECURSIVE BeforeHash(_)
BeforeHash(s) ==
    IF s = <<>> \/ Head(s) = "#" THEN <<>>
    ELSE <<Head(s)>> \o BeforeHash(Tail(s))

IsTitleChar(c) == c \in LowerLetters \cup Digits \cup {" "}

normalize_title(title) ==
    Strip(SelectSeq(CollapseWs(Lower(title)), IsTitleChar))

normalize_url(url) ==
    RStripSet(BeforeHash(Lower(Strip(url))), {"/"})

NotDoiPrefix(c) == c \notin {"https://doi.org/", "http://doi.org/"}

CleanDoiKeepingCase(raw) ==
    IF raw = <<>> THEN <<>>
    ELSE SelectSeq(Strip(raw), NotDoiPrefix)

\* clean_doi; the empty sequence stands for None
clean_doi(raw) ==
    IF raw = <<>> THEN <<>>
    ELSE SelectSeq(Lower(Strip(raw)), NotDoiPrefix)

\* re.search(r"(\d{4})", date): the first four consecutive digits, or <<>>
RECURSIVE FirstYear(_)
FirstYear(date) ==
    IF Len(date) < 4 THEN <<>>
    ELSE IF \A i \in 1..4 : date[i] \in Digits
         THEN SubSeq(date, 1, 4)
         ELSE FirstYear(Tail(date))

\* the shortest normalized title that still gives a title key
MinTitleLen == 8

TitleKeyRejectingMinLen(data) ==
    IF data.title = <<>> THEN <<>>
    ELSE LET normalized == normalize_title(data.title)
             year == IF data.year # <<>> THEN data.year
                     ELSE FirstYear(data.date)
         IN  IF Len(normalized) <= MinTitleLen THEN <<>>
             ELSE IF year # <<>> THEN normalized \o <<"|">> \o year
                  ELSE normalized

\* title_key; the empty sequence stands for None
title_key(data) ==
    IF data.title = <<>> THEN <<>>
    ELSE LET normalized == normalize_title(data.title)
             year == IF data.year # <<>> THEN data.year
                     ELSE FirstYear(data.date)
         IN  IF Len(normalized) < MinTitleLen THEN <<>>
             ELSE IF year # <<>> THEN normalized \o <<"|">> \o year
                  ELSE normalized

Modes == {"auto", "doi", "url", "title"}

NoKey == <<>>

KeyTitleFirst(data, mode) ==
    LET doi == clean_doi(IF data.DOI # <<>> THEN data.DOI ELSE data.doi)
        url == IF data.url # <<>> THEN normalize_url(data.url) ELSE <<>>
        title == title_key(data)
    IN  CASE mode = "doi" -> IF doi # <<>> THEN <<"doi", doi>> ELSE NoKey
          [] mode = "url" -> IF url # <<>> THEN <<"url", url>> ELSE NoKey
          [] mode = "title" ->
                IF title # <<>> THEN <<"title", title>> ELSE NoKey
          [] OTHER ->
                IF title # <<>> THEN <<"title", title>>
                ELSE IF doi # <<>> THEN <<"doi", doi>>
                ELSE IF url # <<>> THEN <<"url", url>>
                ELSE NoKey

KeyUrlFirst(data, mode) ==
    LET doi == clean_doi(IF data.DOI # <<>> THEN data.DOI ELSE data.doi)
        url == IF data.url # <<>> THEN normalize_url(data.url) ELSE <<>>
        title == title_key(data)
    IN  CASE mode = "doi" -> IF doi # <<>> THEN <<"doi", doi>> ELSE NoKey
          [] mode = "url" -> IF url # <<>> THEN <<"url", url>> ELSE NoKey
          [] mode = "title" ->
                IF title # <<>> THEN <<"title", title>> ELSE NoKey
          [] OTHER ->
                IF url # <<>> THEN <<"url", url>>
                ELSE IF doi # <<>> THEN <<"doi", doi>>
                ELSE IF title # <<>> THEN <<"title", title>>
                ELSE NoKey

KeyWithoutKind(data, mode) ==
    LET doi == clean_doi(IF data.DOI # <<>> THEN data.DOI ELSE data.doi)
        url == IF data.url # <<>> THEN normalize_url(data.url) ELSE <<>>
        title == title_key(data)
    IN  CASE mode = "doi" -> IF doi # <<>> THEN <<"doi", doi>> ELSE NoKey
          [] mode = "url" -> IF url # <<>> THEN <<"url", url>> ELSE NoKey
          [] mode = "title" ->
                IF title # <<>> THEN <<"title", title>> ELSE NoKey
          [] OTHER ->
                IF doi # <<>> THEN <<"auto", doi>>
                ELSE IF url # <<>> THEN <<"auto", url>>
                ELSE IF title # <<>> THEN <<"auto", title>>
                ELSE NoKey

\* canonical_group_key: <<kind, value>> or NoKey
canonical_group_key(data, mode) ==
    LET doi == clean_doi(IF data.DOI # <<>> THEN data.DOI ELSE data.doi)
        url == IF data.url # <<>> THEN normalize_url(data.url) ELSE <<>>
        title == title_key(data)
    IN  CASE mode = "doi" -> IF doi # <<>> THEN <<"doi", doi>> ELSE NoKey
          [] mode = "url" -> IF url # <<>> THEN <<"url", url>> ELSE NoKey
          [] mode = "title" ->
                IF title # <<>> THEN <<"title", title>> ELSE NoKey
          [] OTHER ->
                IF doi # <<>> THEN <<"doi", doi>>
                ELSE IF url # <<>> THEN <<"url", url>>
                ELSE IF title # <<>> THEN <<"title", title>>
                ELSE NoKey

\* child_signature of a child entry
child_signature(child) ==
    LET data == child.data
        filename == IF data.filename # <<>> THEN data.filename ELSE data.title
    IN  IF data.itemType = "note"
        THEN <<data.itemType, Strip(CollapseWs(data.note)), "">>
        ELSE <<data.itemType,
               Lower(Strip(filename)) \o <<"|">> \o <<data.contentType>>,
               data.linkMode>>

IsPdfName(filename) ==
    LET f == Lower(filename)
    IN  Len(f) >= 4 /\ SubSeq(f, Len(f) - 3, Len(f)) = <<".", "p", "d", "f">>

\* has_pdf_attachment
has_pdf_attachment(children) ==
    \E i \in 1..Len(children) :
        /\ children[i].data.itemType = "attachment"
        /\ \/ children[i].data.contentType = "application/pdf"
           \/ IsPdfName(children[i].data.filename)

(***************************************************************************)
(* The library.  store maps the key of every existing item to its entry    *)
(* [key, version, data].  Top-level items have keys 1..MaxTop, children    *)
(* the keys above; a collection key is a number (sorted() orders them).    *)
(***************************************************************************)
VARIABLES
    store,              \* the Zotero library: key -> entry
    store0,             \* the library when the current run started
    args,               \* parse_args(): collection, tag, limit, group_by, dry_run
    pc,                 \* position of main(): start, build, loser, children,
                        \* winner, done (returned), failed (sys.exit(1))
    run,                \* 1 for the first invocation, 2 for a repeated one
    top_items,          \* main: top_items
    duplicate_groups,   \* main: duplicate_groups, in dict order
    gi,                 \* main: index of the group being merged
    bundles_sorted,     \* merge_group: bundles_sorted (winner first)
    li,                 \* merge_group: index of the loser being processed
    winner_children,    \* merge_group: winner_children
    union_collections,  \* merge_group: union_collections
    existing_tags,      \* merge_group: existing_tags, in dict order
    unique_children,    \* merge_group: unique_children of the current loser
    ci,                 \* merge_group: index of the child being re-parented
    moved,              \* merge_group: attachments_moved, notes_moved
    totals,             \* main: total_deleted, total_attachments, total_notes
    log,                \* requests issued (live) or described (dry) this run
    prevlog,            \* log of the previous run
    otherWrites         \* writes made by another actor so far

vars == <<store, store0, args, pc, run, top_items, duplicate_groups, gi,
          bundles_sorted, li, winner_children, union_collections,
          existing_tags, unique_children, ci, moved, totals, log, prevlog,
          otherWrites>>

TopKeys == 1..MaxTop

ChildKeys == (MaxTop + 1)..(MaxTop + MaxChildren)

\* the keys of s in ascending order
RECURSIVE SortedSeq(_)
SortedSeq(S) ==
    IF S = {} THEN <<>>
    ELSE LET m == CHOOSE x \in S : \A y \in S : x <= y
         IN  <<m>> \o SortedSeq(S \ {m})

Range(s) == {s[i] : i \in 1..Len(s)}

\* first n elements of s (all of them when n = 0: no limit)
Truncate(s, n) == IF n > 0 /\ n < Len(s) THEN SubSeq(s, 1, n) ELSE s

HasTag(data, label) == \E i \in 1..Len(data.tags) : data.tags[i].tag = label

\* ZoteroAPI.iter_top_items: the top-level items of the scope, in listing
\* order, cut after `limit` entries
iter_top_items(st, collection, tag, limit) ==
    LET scope == {k \in DOMAIN st \cap TopKeys :
                     /\ collection = 0 \/ collection \in Range(st[k].data.collections)
                     /\ tag = "" \/ HasTag(st[k].data, tag)}
        listing == SortedSeq(scope)
    IN  [i \in 1..Len(Truncate(listing, limit)) |-> st[listing[i]]]

\* ZoteroAPI.fetch_children
fetch_children(st, parent_key) ==
    LET kids == SortedSeq({k \in DOMAIN st \cap ChildKeys :
                              st[k].data.parentItem = parent_key})
    IN  [i \in 1..Len(kids) |-> st[kids[i]]]

ParseAnyText(value) == value.t

\* parse_iso8601: seconds after the epoch; 0 for a missing or unparsable text
parse_iso8601(value) == IF value.kind = "utc" THEN value.t ELSE 0

IsAttachment(child) == child.data.itemType = "attachment"

IsNote(child) == child.data.itemType = "note"

\* build_bundle
build_bundle(st, entry) ==
    LET children == fetch_children(st, entry.key)
    IN  [entry |-> entry,
         children |-> children,
         attachments |-> SelectSeq(children, IsAttachment),
         notes |-> SelectSeq(children, IsNote),
         has_pdf |-> has_pdf_attachment(children),
         modified |-> parse_iso8601(entry.data.dateModified),
         added |-> parse_iso8601(entry.data.dateAdded)]

ScoreWithoutTimes(b) ==
    <<IF b.has_pdf THEN 1 ELSE 0, Len(b.attachments), Len(b.notes), 0, 0>>

\* ItemBundle.score
score(b) ==
    <<IF b.has_pdf THEN 1 ELSE 0, Len(b.attachments), Len(b.notes),
      b.modified, b.added>>

\* tuple comparison a < b of two scores
RECURSIVE TupleLess(_, _)
TupleLess(a, b) ==
    IF a = <<>> THEN FALSE
    ELSE IF Head(a) # Head(b) THEN Head(a) < Head(b)
    ELSE TupleLess(Tail(a), Tail(b))

Unsorted(bundles) == bundles

RECURSIVE SortedLastOfEqualsFirst(_)
SortedLastOfEqualsFirst(bundles) ==
    IF bundles = <<>> THEN <<>>
    ELSE LET best == CHOOSE i \in 1..Len(bundles) :
                        /\ \A j \in 1..Len(bundles) :
                              ~TupleLess(score(bundles[i]), score(bundles[j]))
                        /\ \A j \in (i + 1)..Len(bundles) :
                              TupleLess(score(bundles[j]), score(bundles[i]))
             rest == [j \in 1..(Len(bundles) - 1) |->
                        IF j < best THEN bundles[j] ELSE bundles[j + 1]]
         IN  <<bundles[best]>> \o SortedLastOfEqualsFirst(rest)

\* sorted(bundles, key=score, reverse=True): descending, equal scores keep
\* their input order
RECURSIVE SortedByScoreDesc(_)
SortedByScoreDesc(bundles) ==
    IF bundles = <<>> THEN <<>>
    ELSE LET best == CHOOSE i \in 1..Len(bundles) :
                        /\ \A j \in 1..Len(bundles) :
                              ~TupleLess(score(bundles[i]), score(bundles[j]))
                        /\ \A j \in 1..(i - 1) :
                              TupleLess(score(bundles[j]), score(bundles[i]))
             rest == [j \in 1..(Len(bundles) - 1) |->
                        IF j < best THEN bundles[j] ELSE bundles[j + 1]]
         IN  <<bundles[best]>> \o SortedByScoreDesc(rest)

\* dedupe_children
RECURSIVE DedupeFrom(_, _)
DedupeFrom(seen, incoming) ==
    IF incoming = <<>> THEN <<>>
    ELSE LET sig == child_signature(Head(incoming))
         IN  IF sig \in seen THEN DedupeFrom(seen, Tail(incoming))
             ELSE <<Head(incoming)>> \o DedupeFrom(seen \cup {sig}, Tail(incoming))

NoDedupe(existing, incoming) == incoming

dedupe_children(existing, incoming) ==
    DedupeFrom({child_signature(existing[i]) : i \in 1..Len(existing)}, incoming)

\* main: the grouping loop; groups is the dict built so far, in insertion order
RECURSIVE GroupItems(_, _, _)
GroupItems(items, mode, groups) ==
    IF items = <<>> THEN groups
    ELSE LET entry == Head(items)
             key == canonical_group_key(entry.data, mode)
             at == {i \in 1..Len(groups) : groups[i].key = key}
         IN  IF entry.data.itemType \in {"note", "attachment"} \/ key = NoKey
             THEN GroupItems(Tail(items), mode, groups)
             ELSE IF at # {}
             THEN GroupItems(Tail(items), mode,
                     [groups EXCEPT ![CHOOSE i \in at : TRUE].entries =
                                        Append(@, entry)])
             ELSE GroupItems(Tail(items), mode,
                     Append(groups, [key |-> key, entries |-> <<entry>>]))

IsGroup(g) == Len(g.entries) > 0

IsDuplicateGroup(g) == Len(g.entries) > 1

\* main: duplicate_groups
DuplicateGroups(items, mode) ==
    SelectSeq(GroupItems(items, mode, <<>>), IsDuplicateGroup)

\* existing_tags[tag.tag] = tag on a dict kept as a sequence in insertion order
DictPut(d, tag) ==
    LET at == {i \in 1..Len(d) : d[i].tag = tag.tag}
    IN  IF at # {} THEN [d EXCEPT ![CHOOSE i \in at : TRUE] = tag]
        ELSE Append(d, tag)

\* merge_group: the dict comprehension that builds existing_tags
RECURSIVE WinnerTags(_, _)
WinnerTags(tags, d) ==
    IF tags = <<>> THEN d
    ELSE WinnerTags(Tail(tags),
                    IF Head(tags).tag # "" THEN DictPut(d, Head(tags)) ELSE d)

RECURSIVE AddLoserTagsOverwriting(_, _)
AddLoserTagsOverwriting(tags, d) ==
    IF tags = <<>> THEN d
    ELSE AddLoserTagsOverwriting(Tail(tags),
            IF Head(tags).tag # "" THEN DictPut(d, Head(tags)) ELSE d)

\* merge_group: the loop that adds a loser's tags to existing_tags
RECURSIVE AddLoserTags(_, _)
AddLoserTags(tags, d) ==
    IF tags = <<>> THEN d
    ELSE AddLoserTags(Tail(tags),
            IF Head(tags).tag # "" /\ \A i \in 1..Len(d) : d[i].tag # Head(tags).tag
            THEN Append(d, Head(tags)) ELSE d)

(***************************************************************************)
(* The store's side of ZoteroAPI.update_item and ZoteroAPI.delete_item.    *)
(***************************************************************************)
AcceptedUnguarded(st, key, version) == key \in DOMAIN st

\* the precondition If-Unmodified-Since-Version holds for the request
Accepted(st, key, version) == key \in DOMAIN st /\ st[key].version = version

Updated(st, key, new_data) ==
    [st EXCEPT ![key] = [key |-> key, version |-> @.version + 1, data |-> new_data]]

Deleted(st, key) == [k \in DOMAIN st \ {key} |-> st[k]]

(***************************************************************************)
(* The run.                                                                *)
(***************************************************************************)
LastBundle == bundles_sorted[Len(bundles_sorted)]

winner == bundles_sorted[1]

AllBundles == bundles_sorted

loser_bundles == Tail(bundles_sorted)

NoLocals ==
    /\ bundles_sorted = <<>> /\ li = 0 /\ winner_children = <<>>
    /\ union_collections = {} /\ existing_tags = <<>>
    /\ unique_children = <<>> /\ ci = 0
    /\ moved = [attachments |-> 0, notes |-> 0]

\* a library of n top-level items and m children, the arguments, and main at
\* position first
InitAt(first, n, m, TopChoices, ChildChoices, ArgChoices) ==
    /\ \E tops \in [1..n -> TopChoices],
          kids \in [(MaxTop + 1)..(MaxTop + m) -> (1..n) \X ChildChoices] :
          \* child keys are handed out parent by parent
          /\ \A j, k \in DOMAIN kids : j < k => kids[j][1] <= kids[k][1]
          /\ store = [k \in (1..n) \cup DOMAIN kids |->
                       IF k \in 1..n
                       THEN [key |-> k, version |-> 1, data |-> tops[k]]
                       ELSE [key |-> k, version |-> 1,
                             data |-> [kids[k][2] EXCEPT
                                          !.parentItem = kids[k][1]]]]
    /\ store0 = store
    /\ args \in ArgChoices
    /\ pc = first
    /\ run = 1
    /\ top_items = <<>> /\ duplicate_groups = <<>> /\ gi = 0
    /\ NoLocals
    /\ totals = [deleted |-> 0, attachments |-> 0, notes |-> 0]
    /\ log = <<>> /\ prevlog = <<>>
    /\ otherWrites = 0

\* a library of n top-level items and m children, and the arguments, when
\* main is about to list the items
InitWith(n, m, TopChoices, ChildChoices, ArgChoices) ==
    InitAt("start", n, m, TopChoices, ChildChoices, ArgChoices)

\* the variables the credentials must be in
RequiredEnv == {"ZOTERO_USER_ID", "ZOTERO_API_KEY"}

\* ZoteroAPI.list_collections: the collections of the library, name and key
LibraryCollections == {[name |-> <<"X">>, key |-> 1], [name |-> <<>>, key |-> 2]}

\* resolve_collection_key: the key of the collection to scan, 0 for none,
\* -1 for SystemExit
resolve_collection_key(a) ==
    IF a.collection # 0 THEN a.collection
    ELSE IF a.collection_name = <<>> THEN 0
    ELSE LET matches == {c \in LibraryCollections :
                            /\ c.name # <<>>
                            /\ \/ c.name = a.collection_name
                               \/ Lower(c.name) = Lower(a.collection_name)}
         IN  IF matches # {} THEN (CHOOSE c \in matches : TRUE).key ELSE -1

\* main, lines 361-367: read the credentials and resolve the collection.
\* strict: a missing credential or an unknown collection name ends the run
ConfigureStep(strict) ==
    /\ pc = "config"
    /\ LET complete == RequiredEnv \subseteq args.env
           key == IF complete THEN resolve_collection_key(args) ELSE -1
       IN  /\ pc' = IF strict /\ key = -1 THEN "failed" ELSE "start"
           /\ args' = IF key = -1 THEN args ELSE [args EXCEPT !.collection = key]
    /\ UNCHANGED <<store, store0, run, top_items, duplicate_groups, gi,
                   bundles_sorted, li, winner_children, union_collections,
                   existing_tags, unique_children, ci, moved, totals, log,
                   prevlog, otherWrites>>

ConfigureLenient == ConfigureStep(FALSE)

Configure == ConfigureStep(TRUE)

\* main, lines 369-389: list the top-level items and group them
Scan ==
    /\ pc = "start"
    /\ LET items == iter_top_items(store, args.collection, args.tag, args.limit)
           groups == DuplicateGroups(items, args.group_by)
       IN  /\ top_items' = items
           /\ duplicate_groups' = groups
           /\ gi' = IF groups = <<>> THEN 0 ELSE 1
           /\ pc' = IF groups = <<>> THEN "done" ELSE "build"
    /\ UNCHANGED <<store, store0, args, run, bundles_sorted, li, winner_children,
                   union_collections, existing_tags, unique_children, ci, moved,
                   totals, log, prevlog, otherWrites>>

\* main line 392 and merge_group lines 303-317: build and rank the bundles
BuildBundles ==
    /\ pc = "build"
    /\ LET entries == duplicate_groups[gi].entries
           bundles == [i \in 1..Len(entries) |-> build_bundle(store, entries[i])]
           sorted == SortedByScoreDesc(bundles)
       IN  /\ bundles_sorted' = sorted
           /\ winner_children' = sorted[1].children
           /\ union_collections' = Range(sorted[1].entry.data.collections)
           /\ existing_tags' = WinnerTags(sorted[1].entry.data.tags, <<>>)
    /\ moved' = [attachments |-> 0, notes |-> 0]
    /\ li' = 1
    /\ unique_children' = <<>>
    /\ ci' = 0
    /\ pc' = "loser"
    /\ UNCHANGED <<store, store0, args, run, top_items, duplicate_groups, gi,
                   totals, log, prevlog, otherWrites>>

IncomingAttachments(loser) == loser.attachments

\* merge_group line 326: the loser's children offered to the survivor
Incoming(loser) == loser.attachments \o loser.notes

\* merge_group lines 319-326: take over the loser's collections and tags and
\* pick the children to move
LoserBegin ==
    /\ pc = "loser"
    /\ LET loser == loser_bundles[li]
       IN  /\ union_collections' =
                 union_collections \cup Range(loser.entry.data.collections)
           /\ existing_tags' = AddLoserTags(loser.entry.data.tags, existing_tags)
           /\ unique_children' =
                 dedupe_children(winner_children, Incoming(loser))
    /\ ci' = 1
    /\ pc' = "children"
    /\ UNCHANGED <<store, store0, args, run, top_items, duplicate_groups, gi,
                   bundles_sorted, li, winner_children, moved, totals, log,
                   prevlog, otherWrites>>

\* merge_group lines 327-338: re-parent (or describe re-parenting) one child.
\* live: the request is sent; raises: a rejected request ends the run
ReparentStep(live, raises) ==
    /\ pc = "children"
    /\ ci <= Len(unique_children)
    /\ LET child == unique_children[ci]
           new_data == [child.data EXCEPT !.parentItem = winner.entry.key]
           ok == ~live \/ Accepted(store, child.key, child.version)
       IN  /\ log' = Append(log, [op |-> "reparent", key |-> child.key,
                                  from |-> child.data.parentItem,
                                  version |-> child.version,
                                  dry |-> ~live, ok |-> ok])
           /\ store' = IF live /\ ok
                       THEN Updated(store, child.key, new_data) ELSE store
           /\ moved' = IF ~live \/ ~ok THEN moved
                       ELSE IF child.data.itemType = "note"
                            THEN [moved EXCEPT !.notes = @ + 1]
                            ELSE [moved EXCEPT !.attachments = @ + 1]
           /\ ci' = IF ok \/ ~raises THEN ci + 1 ELSE ci
           /\ pc' = IF ok \/ ~raises THEN "children" ELSE "failed"
    /\ UNCHANGED <<store0, args, run, top_items, duplicate_groups, gi,
                   bundles_sorted, li, winner_children, union_collections,
                   existing_tags, unique_children, totals, prevlog, otherWrites>>

ReparentAlwaysLive == ReparentStep(TRUE, TRUE)

ReparentSwallowingErrors == ReparentStep(~args.dry_run, FALSE)

Reparent == ReparentStep(~args.dry_run, TRUE)

\* merge_group lines 339-344: delete (or describe deleting) the loser.
\* sent: the DELETE request reaches the store; raises: a rejected request
\* ends the run
DeleteLoserStep(sent, raises) ==
    /\ pc = "children"
    /\ ci > Len(unique_children)
    /\ LET loser == loser_bundles[li]
           ok == \/ args.dry_run
                 \/ Accepted(store, loser.entry.key, loser.entry.version)
       IN  /\ winner_children' = IF args.dry_run THEN winner_children
                                 ELSE winner_children \o unique_children
           /\ log' = Append(log, [op |-> "delete", key |-> loser.entry.key,
                                  from |-> 0,
                                  version |-> loser.entry.version,
                                  dry |-> args.dry_run, ok |-> ok])
           /\ store' = IF ~args.dry_run /\ ok /\ sent
                       THEN Deleted(store, loser.entry.key) ELSE store
           /\ li' = IF ok \/ ~raises THEN li + 1 ELSE li
           /\ pc' = IF ~ok /\ raises THEN "failed"
                    ELSE IF li + 1 > Len(loser_bundles) THEN "winner"
                    ELSE "loser"
    /\ UNCHANGED <<store0, args, run, top_items, duplicate_groups, gi,
                   bundles_sorted, union_collections, existing_tags,
                   unique_children, ci, moved, totals, prevlog, otherWrites>>

DeleteLoserNotSent == DeleteLoserStep(FALSE, TRUE)

DeleteLoserSwallowingErrors == DeleteLoserStep(TRUE, FALSE)

DeleteLoser == DeleteLoserStep(TRUE, TRUE)

CollectionsChanged ==
    union_collections # Range(winner.entry.data.collections)

\* merge_group lines 346-348: the test that decides on the winner's update
WinnerChanged ==
    \/ union_collections # Range(winner.entry.data.collections)
    \/ Len(existing_tags) # Len(winner.entry.data.tags)

\* merge_group lines 346-357 and main lines 393-401: update the winner when
\* its collections or tags changed, add up the totals, go to the next group
UpdateWinner ==
    /\ pc = "winner"
    /\ LET new_data == [winner.entry.data EXCEPT
                           !.collections = SortedSeq(union_collections),
                           !.tags = existing_tags]
           ok == \/ args.dry_run
                 \/ ~WinnerChanged
                 \/ Accepted(store, winner.entry.key, winner.entry.version)
       IN  /\ log' = IF WinnerChanged
                     THEN Append(log, [op |-> "update", key |-> winner.entry.key,
                                       from |-> 0,
                                       version |-> winner.entry.version,
                                       dry |-> args.dry_run, ok |-> ok])
                     ELSE log
           /\ store' = IF WinnerChanged /\ ~args.dry_run /\ ok
                       THEN Updated(store, winner.entry.key, new_data) ELSE store
           /\ totals' = IF ~ok THEN totals
                        ELSE [deleted |-> totals.deleted + Len(loser_bundles),
                              attachments |-> totals.attachments + moved.attachments,
                              notes |-> totals.notes + moved.notes]
           /\ gi' = IF ok THEN gi + 1 ELSE gi
           /\ pc' = IF ~ok THEN "failed"
                    ELSE IF gi + 1 > Len(duplicate_groups) THEN "done"
                    ELSE "build"
    /\ UNCHANGED <<store0, args, run, top_items, duplicate_groups,
                   bundles_sorted, li, winner_children, union_collections,
                   existing_tags, unique_children, ci, moved, prevlog,
                   otherWrites>>

\* iter_top_items line 201: a request for a page of the listing fails
\* (raise_for_status) while main collects top_items on line 369
ListFails ==
    /\ pc = "start"
    /\ log' = Append(log, [op |-> "list", key |-> 0, from |-> 0, version |-> 0,
                           dry |-> args.dry_run, ok |-> FALSE])
    /\ pc' = "failed"
    /\ UNCHANGED <<store, store0, args, run, top_items, duplicate_groups, gi,
                   bundles_sorted, li, winner_children, union_collections,
                   existing_tags, unique_children, ci, moved, totals, prevlog,
                   otherWrites>>

\* fetch_children line 218: the request for the children of an item of the
\* current group fails while main builds the bundles on line 392.
\* fatal: the error ends the run
ChildrenFetchStep(fatal) ==
    /\ pc = "build"
    /\ \E i \in 1..Len(duplicate_groups[gi].entries) :
          log' = Append(log, [op |-> "children",
                              key |-> duplicate_groups[gi].entries[i].key,
                              from |-> 0, version |-> 0,
                              dry |-> args.dry_run, ok |-> FALSE])
    /\ gi' = IF fatal THEN gi ELSE gi + 1
    /\ pc' = IF fatal THEN "failed"
             ELSE IF gi + 1 > Len(duplicate_groups) THEN "done" ELSE "build"
    /\ UNCHANGED <<store, store0, args, run, top_items, duplicate_groups,
                   bundles_sorted, li, winner_children, union_collections,
                   existing_tags, unique_children, ci, moved, totals, prevlog,
                   otherWrites>>

ChildrenFetchFailsSkippingGroup == ChildrenFetchStep(FALSE)

ChildrenFetchFails == ChildrenFetchStep(TRUE)

Running == pc \in {"build", "loser", "children", "winner"}

\* another client of the library edits one item while the run is under way
OtherActorWrite ==
    /\ Running
    /\ otherWrites < MaxOtherWrites
    /\ \E k \in DOMAIN store :
          store' = [store EXCEPT ![k].version = @ + 1, ![k].data.extra = 1]
    /\ otherWrites' = otherWrites + 1
    /\ UNCHANGED <<store0, args, pc, run, top_items, duplicate_groups, gi,
                   bundles_sorted, li, winner_children, union_collections,
                   existing_tags, unique_children, ci, moved, totals, log,
                   prevlog>>

\* the script is invoked again, live, with the other arguments unchanged
Rerun ==
    /\ pc = "done"
    /\ run = 1
    /\ run' = 2
    /\ pc' = "start"
    /\ args' = [args EXCEPT !.dry_run = FALSE]
    /\ store0' = store
    /\ prevlog' = log
    /\ log' = <<>>
    /\ top_items' = <<>> /\ duplicate_groups' = <<>> /\ gi' = 0
    /\ bundles_sorted' = <<>> /\ li' = 0 /\ winner_children' = <<>>
    /\ union_collections' = {} /\ existing_tags' = <<>>
    /\ unique_children' = <<>> /\ ci' = 0
    /\ moved' = [attachments |-> 0, notes |-> 0]
    /\ totals' = [deleted |-> 0, attachments |-> 0, notes |-> 0]
    /\ UNCHANGED <<store, otherWrites>>

Engine ==
    \/ Scan
    \/ BuildBundles
    \/ LoserBegin
    \/ Reparent
    \/ DeleteLoser
    \/ UpdateWinner

(***************************************************************************)
(* Libraries and arguments the runs are checked on.                        *)
(***************************************************************************)
Utc(t) == [kind |-> "utc", t |-> t]

LongTitle == <<"D", "e", "e", "p", " ", "r", "l", "!", " ", "n", "e", "t">>

TopItem(doi, collections, tags) ==
    [itemType |-> "journalArticle", DOI |-> doi, doi |-> <<>>, url |-> <<>>,
     title |-> LongTitle, year |-> <<>>, date |-> <<>>,
     collections |-> collections, tags |-> tags,
     dateModified |-> Utc(1), dateAdded |-> Utc(1), extra |-> 0]

NoteChild(body) ==
    [itemType |-> "note", parentItem |-> 0, note |-> body, filename |-> <<>>,
     title |-> <<>>, contentType |-> "", linkMode |-> "", extra |-> 0]

AttachmentChild(filename, contentType) ==
    [itemType |-> "attachment", parentItem |-> 0, note |-> <<>>,
     filename |-> filename, title |-> <<>>, contentType |-> contentType,
     linkMode |-> "imported_file", extra |-> 0]

Tag(label) == [tag |-> label, type |-> 0]

\* a tag Zotero added automatically
AutoTag(label) == [tag |-> label, type |-> 1]

Args(collection, tag, limit, group_by, dry_run) ==
    [collection |-> collection, tag |-> tag, limit |-> limit,
     group_by |-> group_by, dry_run |-> dry_run]

ChildChoices == {NoteChild(<<"s">>), AttachmentChild(<<"p">>, "application/pdf")}

\* a live run over one group of duplicates while another actor edits the library
Init ==
    InitWith(MaxTop - 1, MaxChildren - 1,
             {TopItem(<<"X">>, c, <<>>) : c \in {<<>>, <<1>>}},
             ChildChoices,
             {Args(0, "", 0, "auto", FALSE)})

Next == Engine \/ OtherActorWrite

Spec == Init /\ [][Next]_vars

\* a live run over a library with up to two groups of duplicates while another
\* actor edits the library
InitGroups ==
    InitWith(MaxTop, MaxChildren - 1,
             {TopItem(d, <<>>, <<>>) : d \in {<<"X">>, <<"y">>}},
             ChildChoices,
             {Args(0, "", 0, "auto", FALSE)})

SpecGroups == InitGroups /\ [][Next]_vars

\* a live run over one pair of duplicates while another actor edits the library
InitGuard ==
    InitWith(MaxTop - 2, MaxChildren - 1,
             {TopItem(<<"X">>, c, <<>>) : c \in {<<>>, <<1>>}},
             ChildChoices,
             {Args(0, "", 0, "auto", FALSE)})

SpecGuard == InitGuard /\ [][Next]_vars

\* a dry run followed by a live run, nobody else writing
InitTwice ==
    InitWith(MaxTop - 1, MaxChildren,
             {TopItem(d, <<>>, <<>>) : d \in {<<"X">>, <<"x", " ">>}},
             {NoteChild(<<"s">>), NoteChild(<<" ", "s">>),
              AttachmentChild(<<"p">>, "application/pdf")},
             {Args(0, "", 0, "auto", TRUE)})

NextTwice == Engine \/ Rerun

SpecTwice == InitTwice /\ [][NextTwice]_vars

\* one dry or live run over a group whose items differ in collections and tags
InitMeta ==
    InitWith(MaxTop - 2, MaxChildren - 1,
             {TopItem(<<"X">>, c, t) :
                 c \in {<<>>, <<2, 1>>},
                 t \in {<<>>, <<Tag("a")>>, <<Tag("a"), Tag("a")>>, <<Tag("")>>}},
             ChildChoices,
             {Args(0, "", 0, "auto", d) : d \in BOOLEAN})

SpecMeta == InitMeta /\ [][Engine]_vars

\* two live runs with every choice of scope, tag, limit and grouping mode
InitScope ==
    InitWith(MaxTop - 1, MaxChildren - 1,
             {TopItem(<<"x", " ">>, <<>>, <<>>),
              TopItem(<<"x", " ">>, <<1>>, <<Tag("a")>>)},
             ChildChoices,
             {Args(c, t, l, g, FALSE) :
                 c \in {0, 1}, t \in {"", "a"}, l \in {0, MaxTop - 2},
                 g \in Modes})

SpecScope == InitScope /\ [][NextTwice]_vars

NoTime == [kind |-> "none", t |-> 0]

DatedItem(modified, added) ==
    [TopItem(<<"X">>, <<>>, <<>>) EXCEPT !.dateModified = modified,
                                        !.dateAdded = added]

RankedChildChoices ==
    {NoteChild(<<"s">>), AttachmentChild(<<"p">>, "application/pdf"),
     AttachmentChild(<<"q">>, "text/html")}

DatedChoices ==
    {DatedItem(Utc(2), Utc(2)), DatedItem(Utc(2), Utc(1)),
     DatedItem(NoTime, Utc(1))}

\* the run up to the ranking of the bundles of the first group, over items
\* that differ in their children and timestamps
InitRank ==
    InitWith(MaxTop - 2, MaxChildren, DatedChoices, RankedChildChoices,
             {Args(0, "", 0, "auto", FALSE)})

\* the same with more items and fewer children
InitOrder ==
    InitWith(MaxTop - 1, MaxChildren - 1, DatedChoices, RankedChildChoices,
             {Args(0, "", 0, "auto", FALSE)})

\* a text fromisoformat rejects; t is the time a reader would take it for
Garbled == [kind |-> "text", t |-> 9]

CorruptDatedChoices ==
    {DatedItem(Garbled, Utc(1)), DatedItem(NoTime, Utc(2)),
     DatedItem(Utc(1), Utc(1)), DatedItem(Utc(1), Garbled)}

\* the run up to the ranking over items with missing and unparsable timestamps
InitDates ==
    InitWith(MaxTop - 2, MaxChildren - 1, CorruptDatedChoices,
             RankedChildChoices, {Args(0, "", 0, "auto", FALSE)})

NextRank == Scan \/ BuildBundles

SpecDates == InitDates /\ [][NextRank]_vars

SpecRank == InitRank /\ [][NextRank]_vars

SpecOrder == InitOrder /\ [][NextRank]_vars

\* a live run over a group whose items differ in their tags
InitTags ==
    InitWith(MaxTop - 2, MaxChildren - 1,
             {TopItem(<<"X">>, <<>>, t) :
                 t \in {<<>>, <<Tag("a")>>, <<AutoTag("a"), Tag("b")>>,
                        <<Tag("a"), AutoTag("a")>>, <<Tag("")>>}},
             ChildChoices,
             {Args(0, "", 0, "auto", FALSE)})

SpecTags == InitTags /\ [][Engine]_vars

\* a live run over one group with up to two losers that can carry children
\* with the same signature and tags with the same label
InitLosers ==
    InitWith(MaxTop - 1, MaxChildren,
             {TopItem(<<"X">>, <<>>, <<>>),
              TopItem(<<"X">>, <<1>>, <<Tag("a")>>),
              TopItem(<<"X">>, <<>>, <<AutoTag("a")>>)},
             ChildChoices,
             {Args(0, "", 0, "auto", FALSE)})

SpecLosers == InitLosers /\ [][Engine]_vars

\* a live run, nobody else writing, over a library with up to two groups of
\* duplicates and items outside every group
InitFrame ==
    InitWith(MaxTop, MaxChildren - 1,
             {TopItem(<<"X">>, <<>>, <<>>), TopItem(<<"y">>, <<>>, <<>>),
              TopItem(<<"y">>, <<1>>, <<>>)},
             ChildChoices,
             {Args(0, "", 0, "auto", FALSE)})

SpecFrame == InitFrame /\ [][Engine]_vars

\* a live run over a library with up to two groups of duplicates in which
\* requests for listings can fail
NextFetch == Engine \/ ListFails \/ ChildrenFetchFails

SpecFetch == InitGroups /\ [][NextFetch]_vars

\* the command line and the environment of a run
Invocation(env, collection, collection_name) ==
    [collection |-> collection, tag |-> "", limit |-> 0, group_by |-> "auto",
     dry_run |-> FALSE, env |-> env, collection_name |-> collection_name]

\* a live run from its first line, with and without the credentials and with
\* a collection given by key, by name, or not at all
InitConfig ==
    InitAt("config", MaxTop - 2, MaxChildren - 1,
           {TopItem(<<"X">>, c, <<>>) : c \in {<<>>, <<1>>}},
           ChildChoices,
           {Invocation(e, c, n) :
               e \in {RequiredEnv, {"ZOTERO_USER_ID"}, {"ZOTERO_API_KEY"}},
               c \in {0, 1},
               n \in {<<>>, <<"X">>, <<"x">>, <<"y">>}})

NextConfig == Configure \/ Engine

SpecConfig == InitConfig /\ [][NextConfig]_vars

LongTitleSpaced ==
    <<"d", "e", "e", "p", " ", "\t", "r", "l", " ", "n", "e", "t", "?">>

ShortTitle == <<"N", "e", "t">>

Year2021 == <<"2", "0", "2", "1">>

KeyedItem(doi, url, title, date) ==
    [TopItem(doi, <<>>, <<>>) EXCEPT !.url = url, !.title = title,
                                    !.date = date]

\* a top-level attachment (a saved web page): it has a link and a title
StandaloneAttachment(url) ==
    [KeyedItem(<<>>, url, LongTitle, <<>>) EXCEPT !.itemType = "attachment"]

\* the scan over items that differ in identifier, link, title and date, under
\* every grouping mode
InitKeys ==
    InitWith(MaxTop - 2, 0,
             {KeyedItem(d, u, t[1], t[2]) :
                 d \in {<<>>, <<" ">>, <<"X">>, <<"https://doi.org/", "x", " ">>},
                 u \in {<<>>, <<"x", "/">>, <<"/">>},
                 t \in {<<ShortTitle, <<>>>>, <<LongTitle, <<>>>>,
                        <<LongTitleSpaced, <<>>>>,
                        <<LongTitle, <<"i", "n", " ">> \o Year2021>>}},
             {},
             {Args(0, "", 0, g, FALSE) : g \in Modes})

SpecKeys == InitKeys /\ [][Scan]_vars

\* titles around the shortest length that gives a key: 8 symbols after
\* normalization, 7 after normalization (9 before), none after normalization
TitleOf8 == <<" ", "D", "e", "e", "p", " ", "\t", "n", "e", "s", " ">>

TitleOf7 == <<"D", "e", "e", "p", "!", "n", "e", "s", "?">>

TitleOfNone == <<"!", "?", "!", "?", "!", "?", "!", "?", "!">>

\* the scan under mode title over items with short and long titles
InitTitles ==
    InitWith(MaxTop - 1, 0,
             {KeyedItem(<<>>, <<>>, t, d) :
                 t \in {<<>>, TitleOfNone, TitleOf7, TitleOf8, LongTitle},
                 d \in {<<>>, Year2021}},
             {},
             {Args(0, "", 0, "title", FALSE)})

SpecTitles == InitTitles /\ [][Scan]_vars

\* the scan over a library with groups, single items, items without a key
\* and top-level attachments
InitGrouper ==
    InitWith(MaxTop, 0,
             {KeyedItem(<<"X">>, <<>>, LongTitle, <<>>),
              KeyedItem(<<"y">>, <<>>, LongTitle, <<>>),
              KeyedItem(<<>>, <<>>, ShortTitle, <<>>),
              StandaloneAttachment(<<"x">>)},
             {},
             {Args(0, "", 0, g, FALSE) : g \in {"auto", "title"}})

SpecGrouper == InitGrouper /\ [][Scan]_vars

(***************************************************************************)
(* Properties.                                                             *)
(***************************************************************************)
\* the merge of the group in bundles_sorted has returned
MergeCompleted == pc \in {"build", "done"} /\ bundles_sorted # <<>>

Signatures(children) == {child_signature(children[i]) : i \in 1..Len(children)}

ChildrenOf(st, parent_key) ==
    {k \in DOMAIN st \cap ChildKeys : st[k].data.parentItem = parent_key}

FirstRunLive == \A i \in 1..Len(prevlog) : ~prevlog[i].dry

\* C1 as stated: after a live run that completed, a second run with the same
\* arguments issues no update and no delete, whatever scope, tag, limit and
\* grouping mode were chosen.
C1_SecondRunWritesNothing == (run = 2 /\ FirstRunLive) => log = <<>>

\* C1 as amended: after a live run without a scan limit that completed, a
\* second run with the same arguments issues no update and no delete.
C1_SecondRunWritesNothingWithoutLimit ==
    (run = 2 /\ FirstRunLive /\ args.limit = 0) => log = <<>>

C1_Witness ==
    /\ run = 2 /\ pc = "done" /\ args.limit = 0 /\ log = <<>>
    /\ args.tag = "a" /\ args.collection = 1
    /\ \E i \in 1..Len(prevlog) : prevlog[i].op = "delete" /\ ~prevlog[i].dry

\* C2: once a live merge of a group has completed, the signatures of the
\* children attached to the survivor are exactly the signatures of the children
\* the bundles of the group had before the merge.
C2_NoDataLoss ==
    (MergeCompleted /\ ~args.dry_run) =>
        {child_signature(store[k]) : k \in ChildrenOf(store, winner.entry.key)}
            = UNION {Signatures(bundles_sorted[b].children) :
                        b \in 1..Len(bundles_sorted)}

C2_Witness ==
    /\ MergeCompleted /\ ~args.dry_run
    /\ \E i \in 1..Len(log) : log[i].op = "reparent" /\ log[i].ok
    /\ \E l \in 1..Len(loser_bundles) :
          \E c \in 1..Len(loser_bundles[l].children) :
              \A i \in 1..Len(log) : log[i].key # loser_bundles[l].children[c].key

Described(l) == {<<l[i].op, l[i].key>> : i \in 1..Len(l)}

\* C3: the re-parent, delete and update actions a dry run describes are
\* exactly the requests a live run on the same library issues.
C3_DryRunDescribesLiveRun ==
    (run = 2 /\ pc = "done" /\ ~FirstRunLive) => Described(prevlog) = Described(log)

\* C4: a dry run sends no update and no delete, so the library stays as it
\* was when the run started.
C4_DryRunModifiesNothing ==
    args.dry_run => (store = store0 /\ \A i \in 1..Len(log) : log[i].dry)

C4_Witness ==
    /\ args.dry_run /\ pc = "done"
    /\ \A o \in {"reparent", "delete", "update"} :
          \E i \in 1..Len(log) : log[i].op = o

\* C5: a rejected re-parent, delete or update does not abort the run.
C5_RejectedWriteDoesNotAbort ==
    (\E i \in 1..Len(log) : ~log[i].ok) => pc # "failed"

\* C6: when a write fails in one duplicate group, the later duplicate groups
\* of the run are still attempted.
C6_LaterGroupsAttempted == pc = "failed" => gi = Len(duplicate_groups)

EngineDeleted ==
    {log[i].key : i \in {j \in 1..Len(log) :
                            log[j].op = "delete" /\ ~log[j].dry /\ log[j].ok}}

\* C7: no child in the library has as its parent an item the run has deleted.
C7_NoDanglingParent ==
    \A k \in DOMAIN store \cap ChildKeys :
        store[k].data.parentItem \notin EngineDeleted

\* the children of all losers before loser l, in processing order
RECURSIVE EarlierChildren(_)
EarlierChildren(l) ==
    IF l <= 1 THEN <<>>
    ELSE EarlierChildren(l - 1) \o Incoming(loser_bundles[l - 1])

\* the children of loser l with a signature new to the survivor
NovelChildren(l) ==
    dedupe_children(winner.children \o EarlierChildren(l),
                    Incoming(loser_bundles[l]))

\* C8: the delete of a loser is issued only after the re-parent of each of its
\* novel children was issued and accepted; after a rejected re-parent the
\* delete of that loser is not issued.
C8_ReparentBeforeDelete ==
    /\ \A l \in 1..Len(bundles_sorted) - 1 :
          \A j \in 1..Len(log) :
              (log[j].op = "delete" /\ ~log[j].dry
                  /\ log[j].key = loser_bundles[l].entry.key) =>
                  \A c \in 1..Len(NovelChildren(l)) :
                      \E i \in 1..(j - 1) :
                          /\ log[i].op = "reparent" /\ log[i].ok
                          /\ log[i].key = NovelChildren(l)[c].key
    /\ \A i \in 1..Len(log) :
          (log[i].op = "reparent" /\ ~log[i].ok) =>
              \A j \in 1..Len(log) :
                  ~(log[j].op = "delete" /\ log[j].key = log[i].from)

C8_Witness ==
    \E j \in 1..Len(log) :
        /\ log[j].op = "delete" /\ log[j].ok /\ ~log[j].dry
        /\ \E i \in 1..(j - 1) : log[i].op = "reparent" /\ log[i].from = log[j].key

Labels(tags) == {tags[i].tag : i \in 1..Len(tags)} \ {""}

\* some loser has a collection or a tag label the survivor lacks
LoserContributes ==
    \E l \in 1..Len(loser_bundles) :
        \/ ~(Range(loser_bundles[l].entry.data.collections)
                \subseteq Range(winner.entry.data.collections))
        \/ ~(Labels(loser_bundles[l].entry.data.tags)
                \subseteq Labels(winner.entry.data.tags))

WinnerUpdates ==
    {i \in 1..Len(log) : log[i].op = "update" /\ log[i].key = winner.entry.key}

\* C9: when a loser contributed a collection or a tag label, the merge issues
\* exactly one update of the survivor, with the sorted union of the collections
\* and the reconciled tags.
C9_UpdateWhenChanged ==
    (MergeCompleted /\ ~args.dry_run /\ LoserContributes) =>
        /\ Cardinality(WinnerUpdates) = 1
        /\ store[winner.entry.key].data.collections =
              SortedSeq(UNION {Range(bundles_sorted[b].entry.data.collections) :
                                  b \in 1..Len(bundles_sorted)})
        /\ Labels(store[winner.entry.key].data.tags) =
              UNION {Labels(bundles_sorted[b].entry.data.tags) :
                        b \in 1..Len(bundles_sorted)}

\* C10: when no loser contributed a collection or a tag label, the merge
\* issues no update of the survivor.
C10_NoUpdateWhenUnchanged ==
    (MergeCompleted /\ ~args.dry_run /\ ~LoserContributes) => WinnerUpdates = {}

\* the facet tuple of the item with key k, read off the library
FacetTuple(st, k) ==
    LET kids == ChildrenOf(st, k)
        files == {c \in kids : st[c].data.itemType = "attachment"}
        primary == \E c \in files :
                      \/ st[c].data.contentType = "application/pdf"
                      \/ IsPdfName(st[c].data.filename)
        time(v) == IF v.kind = "utc" THEN v.t ELSE 0
    IN  <<IF primary THEN 1 ELSE 0, Cardinality(files),
          Cardinality({c \in kids : st[c].data.itemType = "note"}),
          time(st[k].data.dateModified), time(st[k].data.dateAdded)>>

GroupKeys == {duplicate_groups[gi].entries[i].key :
                 i \in 1..Len(duplicate_groups[gi].entries)}

Ranked == bundles_sorted # <<>> /\ pc = "loser" /\ li = 1

\* C11: the survivor of a group is one of its items and no item of the group
\* has a greater tuple (has_primary_file, attachment_count, note_count,
\* last_modified_time, created_time); when some item of the group has a
\* primary file, so has the survivor.
C11_SurvivorIsMaximal ==
    Ranked =>
        /\ winner.entry.key \in GroupKeys
        /\ \A k \in GroupKeys :
              ~TupleLess(FacetTuple(store, winner.entry.key), FacetTuple(store, k))
        /\ (\E k \in GroupKeys : FacetTuple(store, k)[1] = 1) =>
              FacetTuple(store, winner.entry.key)[1] = 1

C11_Witness ==
    /\ Ranked
    /\ LET w == FacetTuple(store, winner.entry.key)
       IN  /\ w[1] = 1
           /\ \E k \in GroupKeys :
                 LET f == FacetTuple(store, k)
                 IN  f[1] = 0 /\ f[2] > w[2] /\ f[4] > w[4] /\ f[5] > w[5]
                     /\ k < winner.entry.key

Orders(n) ==
    {p \in [1..n -> 1..n] : \A i, j \in 1..n : p[i] = p[j] => i = j}

\* the bundles of the current group in the order main hands them to merge_group
InputBundles ==
    [i \in 1..Len(duplicate_groups[gi].entries) |->
        build_bundle(store, duplicate_groups[gi].entries[i])]

DistinctFacets ==
    \A j, k \in GroupKeys : j # k => FacetTuple(store, j) # FacetTuple(store, k)

\* C12: when the facet tuples of the bundles of a group are pairwise distinct,
\* every permutation of the bundles gives the same survivor and the same
\* order of the losers.
C12_PermutationInvariant ==
    (Ranked /\ DistinctFacets) =>
        \A p \in Orders(Len(InputBundles)) :
            SortedByScoreDesc([i \in 1..Len(InputBundles) |-> InputBundles[p[i]]])
                = bundles_sorted

C12_Witness ==
    /\ Ranked /\ DistinctFacets
    /\ Len(bundles_sorted) = 3
    /\ bundles_sorted[1].entry.key = 3
    /\ bundles_sorted[2].entry.key = 1
    /\ FacetTuple(store, 1)[1] = FacetTuple(store, 2)[1]
    /\ FacetTuple(store, 1)[2] = FacetTuple(store, 2)[2]
    /\ FacetTuple(store, 1)[3] = FacetTuple(store, 2)[3]

Scanned == pc # "start"

\* the listed items the grouper looks at
Papers ==
    {i \in 1..Len(top_items) :
        top_items[i].data.itemType \notin {"note", "attachment"}}

\* the external identifier of a record: surrounding whitespace removed,
\* lower-cased, the doi.org prefix stripped
NormalizedIdentifier(data) ==
    LET stripped == Strip(data.DOI)
        lowered == [i \in 1..Len(stripped) |-> LowerChar(stripped[i])]
    IN  SelectSeq(lowered, NotDoiPrefix)

EntryKeys(g) == {g.entries[i].key : i \in 1..Len(g.entries)}

SameGroup(i, j) ==
    \E g \in 1..Len(duplicate_groups) :
        {top_items[i].key, top_items[j].key} \subseteq EntryKeys(duplicate_groups[g])

SameTitleGroup(i, j) ==
    \E g \in 1..Len(duplicate_groups) :
        /\ duplicate_groups[g].key[1] = "title"
        /\ {top_items[i].key, top_items[j].key} \subseteq EntryKeys(duplicate_groups[g])

SameIdentifier(i, j) ==
    /\ NormalizedIdentifier(top_items[i].data) # <<>>
    /\ NormalizedIdentifier(top_items[i].data) = NormalizedIdentifier(top_items[j].data)

\* C13 as stated: under every grouping mode, two listed records whose
\* identifiers normalize to the same value are in the same group.
C13_SameIdentifierSameGroup ==
    Scanned =>
        \A i, j \in Papers : (i # j /\ SameIdentifier(i, j)) => SameGroup(i, j)

\* C13 as amended: under the modes auto and identifier, two listed records
\* whose identifiers normalize to the same value are in the same group,
\* whatever their titles, links and dates.
C13_SameIdentifierSameGroupByIdentifier ==
    (Scanned /\ args.group_by \in {"auto", "doi"}) =>
        \A i, j \in Papers : (i # j /\ SameIdentifier(i, j)) => SameGroup(i, j)

C13_Witness ==
    /\ Scanned /\ args.group_by = "auto"
    /\ \E i, j \in Papers :
          /\ SameIdentifier(i, j) /\ SameGroup(i, j)
          /\ top_items[i].data.DOI # top_items[j].data.DOI
          /\ title_key(top_items[i].data) # title_key(top_items[j].data)
          /\ title_key(top_items[i].data) # <<>>
          /\ title_key(top_items[j].data) # <<>>
          /\ top_items[i].data.url # <<>> /\ top_items[j].data.url = <<>>

SameTitle(i, j) ==
    /\ title_key(top_items[i].data) # <<>>
    /\ title_key(top_items[i].data) = title_key(top_items[j].data)

HasIdentifier(i) == NormalizedIdentifier(top_items[i].data) # <<>>

\* C14 as stated: two listed records without a common identifier and with the
\* same title|year are grouped on the title only when the mode is title or
\* auto and neither record has an identifier.
C14_TitleGroupOnlyWithoutIdentifier ==
    Scanned =>
        \A i, j \in Papers :
            (i # j /\ ~SameIdentifier(i, j) /\ SameTitle(i, j)
                /\ SameTitleGroup(i, j)) =>
                /\ args.group_by \in {"title", "auto"}
                /\ ~HasIdentifier(i) /\ ~HasIdentifier(j)

\* C14 as amended: two listed records without a common identifier and with
\* the same title|year are grouped on the title only when the mode is title,
\* or the mode is auto and neither record has an identifier.
C14_TitleGroupOnlyInTitleModeOrWithoutIdentifier ==
    Scanned =>
        \A i, j \in Papers :
            (i # j /\ ~SameIdentifier(i, j) /\ SameTitle(i, j)
                /\ SameTitleGroup(i, j)) =>
                \/ args.group_by = "title"
                \/ /\ args.group_by = "auto"
                   /\ ~HasIdentifier(i) /\ ~HasIdentifier(j)

C14_Witness ==
    /\ Scanned /\ args.group_by = "auto"
    /\ \E i, j \in Papers :
          /\ i # j /\ SameTitle(i, j) /\ SameTitleGroup(i, j)
          /\ top_items[i].data.title # top_items[j].data.title
          /\ top_items[i].data.DOI # top_items[j].data.DOI

UsableTitle(data) == title_key(data) # <<>>

\* C15 as stated: under mode auto the key of a record is its identifier key
\* when it has a non-empty normalized identifier, otherwise its link key when
\* it has a link, otherwise its title key when it has a usable title,
\* otherwise none.
C15_AutoPrecedence ==
    (Scanned /\ args.group_by = "auto") =>
        \A i \in Papers :
            LET data == top_items[i].data
                key == canonical_group_key(data, args.group_by)
            IN  IF NormalizedIdentifier(data) # <<>>
                THEN key = <<"doi", NormalizedIdentifier(data)>>
                ELSE IF data.url # <<>>
                THEN key # NoKey /\ key[1] = "url"
                ELSE IF UsableTitle(data)
                THEN key = <<"title", title_key(data)>>
                ELSE key = NoKey

\* the link of a record: surrounding whitespace removed, lower-cased, cut at
\* the fragment, trailing slashes removed
NormalizedLink(data) ==
    LET stripped == Strip(data.url)
        lowered == [i \in 1..Len(stripped) |-> LowerChar(stripped[i])]
    IN  RStripSet(BeforeHash(lowered), {"/"})

\* C15 as amended: under mode auto the key of a record is its identifier key
\* when it has a non-empty normalized identifier, otherwise its link key when
\* it has a non-empty normalized link, otherwise its title key when it has a
\* usable title, otherwise none.
C15_AutoPrecedenceOfNonEmptyKeys ==
    (Scanned /\ args.group_by = "auto") =>
        \A i \in Papers :
            LET data == top_items[i].data
                key == canonical_group_key(data, args.group_by)
            IN  IF NormalizedIdentifier(data) # <<>>
                THEN key = <<"doi", NormalizedIdentifier(data)>>
                ELSE IF NormalizedLink(data) # <<>>
                THEN key = <<"url", NormalizedLink(data)>>
                ELSE IF UsableTitle(data)
                THEN key = <<"title", title_key(data)>>
                ELSE key = NoKey

C15_Witness ==
    /\ Scanned /\ args.group_by = "auto"
    /\ \E i, j \in Papers :
          /\ i # j
          /\ top_items[i].data.DOI # <<>> /\ top_items[i].data.url # <<>>
          /\ UsableTitle(top_items[i].data)
          /\ top_items[j].data.DOI = <<" ">> /\ top_items[j].data.url # <<>>
          /\ NormalizedLink(top_items[j].data) # <<>>
          /\ UsableTitle(top_items[j].data)
          /\ duplicate_groups = <<>>

\* the position of the item with key k in the listing
Position(k) == CHOOSE i \in 1..Len(top_items) : top_items[i].key = k

KeyOf(entry) == canonical_group_key(entry.data, args.group_by)

Grouped == UNION {EntryKeys(duplicate_groups[g]) : g \in 1..Len(duplicate_groups)}

\* C16: a listed record without a canonical key is in no group; every group
\* has at least two records, all with the key of the group; a record that is
\* the only one with its key is in no group; the records of a group are in
\* listing order.
C16_GrouperOutput ==
    Scanned =>
        /\ \A i \in 1..Len(top_items) :
              KeyOf(top_items[i]) = NoKey => top_items[i].key \notin Grouped
        /\ \A g \in 1..Len(duplicate_groups) :
              LET entries == duplicate_groups[g].entries
              IN  /\ Len(entries) >= 2
                  /\ \A a \in 1..Len(entries) :
                        /\ KeyOf(entries[a]) = duplicate_groups[g].key
                        /\ entries[a] \in Range(top_items)
                  /\ \A a, b \in 1..Len(entries) :
                        a < b => Position(entries[a].key) < Position(entries[b].key)
        /\ \A i \in Papers :
              (\A j \in Papers \ {i} : KeyOf(top_items[j]) # KeyOf(top_items[i]))
                  => top_items[i].key \notin Grouped

C16_Witness ==
    /\ Scanned
    /\ \E g \in 1..Len(duplicate_groups) :
          /\ duplicate_groups[g].entries[1].key = 1
          /\ duplicate_groups[g].entries[2].key = 4
    /\ KeyOf(top_items[2]) = NoKey
    /\ KeyOf(top_items[3]) # NoKey /\ 3 \in Papers /\ 3 \notin Grouped

\* the children of all losers of the group, in processing order
AllLoserChildren == EarlierChildren(Len(loser_bundles) + 1)

Reparented ==
    {log[i].key : i \in {j \in 1..Len(log) :
                            log[j].op = "reparent" /\ ~log[j].dry /\ log[j].ok}}

\* C17: in a live merge that completed, a child of a loser is re-parented
\* exactly when its signature is neither among the survivor's original
\* children nor among the loser children processed before it; at most one
\* child per signature is re-parented; a signature the survivor had on exactly
\* one child is on exactly one of its children after the merge.
C17_ChildDeduplication ==
    (MergeCompleted /\ ~args.dry_run) =>
        /\ \A p \in 1..Len(AllLoserChildren) :
              AllLoserChildren[p].key \in Reparented <=>
                  /\ child_signature(AllLoserChildren[p])
                        \notin Signatures(winner.children)
                  /\ \A q \in 1..(p - 1) :
                        child_signature(AllLoserChildren[q])
                            # child_signature(AllLoserChildren[p])
        /\ \A j, k \in Reparented :
              child_signature(store0[j]) = child_signature(store0[k]) => j = k
        /\ \A c \in 1..Len(winner.children) :
              (\A d \in 1..Len(winner.children) :
                  child_signature(winner.children[d])
                      = child_signature(winner.children[c]) => d = c)
              => Cardinality({k \in ChildrenOf(store, winner.entry.key) :
                                 child_signature(store[k])
                                     = child_signature(winner.children[c])}) = 1

C17_Witness ==
    /\ MergeCompleted /\ ~args.dry_run
    /\ Len(loser_bundles) = 2
    /\ Reparented # {}
    /\ \E p \in 1..Len(AllLoserChildren) :
          /\ AllLoserChildren[p].key \notin Reparented
          /\ child_signature(AllLoserChildren[p]) \notin Signatures(winner.children)
          /\ AllLoserChildren[p].data.note
                \notin {store0[k].data.note : k \in Reparented}

Reconciled == pc = "winner"

LabelsOf(tags) == {tags[i].tag : i \in 1..Len(tags)}

LoserTags ==
    UNION {Range(loser_bundles[l].entry.data.tags) : l \in 1..Len(loser_bundles)}

WithLabel(tags, label) == {i \in 1..Len(tags) : tags[i].tag = label}

\* C18 as stated: the reconciled tags contain every tag of the survivor, and
\* for each label only losers carry exactly one tag with that label; no label
\* occurs twice.
C18_TagReconciliation ==
    Reconciled =>
        /\ Range(winner.entry.data.tags) \subseteq Range(existing_tags)
        /\ \A t \in LoserTags :
              t.tag \notin LabelsOf(winner.entry.data.tags) =>
                  Cardinality(WithLabel(existing_tags, t.tag)) = 1
        /\ Range(existing_tags) \subseteq Range(winner.entry.data.tags) \cup LoserTags
        /\ \A label \in LabelsOf(existing_tags) :
              Cardinality(WithLabel(existing_tags, label)) = 1

\* the survivor's tag for a label: the last one it lists with that label
LastWithLabel(tags, label) ==
    tags[CHOOSE i \in WithLabel(tags, label) :
            \A j \in WithLabel(tags, label) : j <= i]

\* C18 as amended: the reconciled tags contain, for every non-empty label of
\* the survivor, the survivor's tag with that label, and for each non-empty
\* label only losers carry exactly one tag with that label, taken from a
\* loser; no label occurs twice and no tag has an empty label.
C18_TagReconciliationOfLabelledTags ==
    Reconciled =>
        /\ \A label \in LabelsOf(winner.entry.data.tags) \ {""} :
              LastWithLabel(winner.entry.data.tags, label) \in Range(existing_tags)
        /\ \A t \in LoserTags :
              (t.tag # "" /\ t.tag \notin LabelsOf(winner.entry.data.tags)) =>
                  Cardinality(WithLabel(existing_tags, t.tag)) = 1
        /\ Range(existing_tags) \subseteq Range(winner.entry.data.tags) \cup LoserTags
        /\ \A label \in LabelsOf(existing_tags) :
              label # "" /\ Cardinality(WithLabel(existing_tags, label)) = 1

C18_Witness ==
    /\ Reconciled
    /\ winner.entry.data.tags = <<Tag("a")>>
    /\ existing_tags = <<Tag("a"), Tag("b")>>
    /\ AutoTag("a") \in LoserTags

\* the entries the engine has read: the listed items and the children of the
\* bundles of the current group
EngineRead ==
    Range(top_items) \cup
    UNION {Range(bundles_sorted[b].children) : b \in 1..Len(bundles_sorted)}

\* the version the engine read for the record with key k
ReadVersion(k) == (CHOOSE e \in EngineRead : e.key = k).version

\* somebody wrote the record with key k after the engine read it
WrittenSinceRead(k) == k \notin DOMAIN store \/ store[k].version # ReadVersion(k)

\* C19: every request the engine sends carries the version it read for that
\* record; a request for a record that was written since the engine read it
\* is rejected and leaves the library as it is; a record another actor has
\* edited is never deleted and never loses that edit.
C19_VersionGuardedWrites ==
    [][/\ Len(log') > Len(log) =>
             LET request == log'[Len(log')]
             IN  /\ \E e \in EngineRead : e.key = request.key
                 /\ request.version = ReadVersion(request.key)
                 /\ WrittenSinceRead(request.key) =>
                        ~request.ok /\ store' = store
       /\ \A k \in DOMAIN store :
             store[k].data.extra = 1 =>
                 k \in DOMAIN store' /\ store'[k].data.extra = 1]_vars

C19_Witness ==
    /\ pc = "failed"
    /\ \A o \in {"reparent", "delete"} : \E i \in 1..Len(log) : log[i].op = o
    /\ \E i \in 1..Len(log) :
          /\ log[i].op = "update" /\ ~log[i].ok
          /\ store[log[i].key].data.extra = 1
          /\ store[log[i].key].data.collections = <<>>

\* the deletes of items of the current group the library has carried out
GroupDeletes ==
    {i \in 1..Len(log) :
        /\ log[i].op = "delete" /\ ~log[i].dry /\ log[i].ok
        /\ \E b \in 1..Len(bundles_sorted) : bundles_sorted[b].entry.key = log[i].key}

PerformedDeletes ==
    {i \in 1..Len(log) : log[i].op = "delete" /\ ~log[i].dry /\ log[i].ok}

SummaryPrinted == pc = "done" /\ duplicate_groups # <<>>

\* the live half of C20: a live merge of n items that completed has deleted
\* each of its n-1 losers once and has not deleted the survivor
LiveMergeDeletesLosers ==
    (MergeCompleted /\ ~args.dry_run) =>
        /\ Cardinality(GroupDeletes) = Len(bundles_sorted) - 1
        /\ \A l \in 1..Len(loser_bundles) :
              Cardinality({i \in GroupDeletes :
                              log[i].key = loser_bundles[l].entry.key}) = 1
        /\ \A i \in 1..Len(log) :
              log[i].op = "delete" => log[i].key # winner.entry.key

\* C20: a live merge of n items that completed has deleted each of its n-1
\* losers once and never the survivor, and the items-removed figure of the
\* summary of a run is the number of deletes the run performed.
C20_ExactlyNMinusOneRemovals ==
    /\ LiveMergeDeletesLosers
    /\ SummaryPrinted => totals.deleted = Cardinality(PerformedDeletes)

\* a credential is missing, or the collection is given by a name that no
\* collection of the library has
ConfigurationMissing ==
    \/ "ZOTERO_USER_ID" \notin args.env
    \/ "ZOTERO_API_KEY" \notin args.env
    \/ /\ args.collection = 0 /\ args.collection_name # <<>>
       /\ \A c \in LibraryCollections :
             c.name = <<>> \/
             [i \in 1..Len(c.name) |-> LowerChar(c.name[i])]
                 # [i \in 1..Len(args.collection_name) |->
                        LowerChar(args.collection_name[i])]

\* C21: when a credential is missing or the named collection cannot be
\* resolved, the run ends before any item is listed, any group is built and
\* any request is sent.
C21_ConfigurationErrorIsFatal ==
    ConfigurationMissing =>
        /\ pc \in {"config", "failed"}
        /\ top_items = <<>> /\ duplicate_groups = <<>> /\ bundles_sorted = <<>>
        /\ log = <<>> /\ store = store0

C21_Witness ==
    /\ pc = "failed"
    /\ RequiredEnv \subseteq args.env
    /\ args.collection = 0
    /\ args.collection_name = <<"y">>

FetchOps == {"list", "children"}

\* C22: a failed listing of the items or of an item's children is the last
\* request of the run, which ends there; a failed listing of the items is
\* its first request.
C22_FetchFailureIsFatal ==
    \A i \in 1..Len(log) :
        log[i].op \in FetchOps =>
            /\ i = Len(log) /\ pc = "failed"
            /\ log[i].op = "list" => i = 1 /\ top_items = <<>> /\ store = store0

C22_Witness ==
    /\ pc = "failed"
    /\ log[Len(log)].op = "children"
    /\ \E i \in 1..Len(log) : log[i].op = "delete" /\ log[i].ok
    /\ gi = 2

\* the title of a record in lower case, whitespace collapsed, without
\* anything but letters, digits and blanks, trimmed
NormalizedTitle(data) ==
    LET lowered == [i \in 1..Len(data.title) |-> LowerChar(data.title[i])]
    IN  Strip(SelectSeq(CollapseWs(lowered), IsTitleChar))

\* C23: under mode title a record whose normalized title has fewer than 8
\* symbols has no key and is in no group; a record whose normalized title has
\* 8 symbols or more has a key.
C23_ShortTitleBoundary ==
    (Scanned /\ args.group_by = "title") =>
        \A i \in Papers :
            IF Len(NormalizedTitle(top_items[i].data)) < 8
            THEN KeyOf(top_items[i]) = NoKey /\ top_items[i].key \notin Grouped
            ELSE KeyOf(top_items[i]) # NoKey

C23_Witness ==
    /\ Scanned /\ args.group_by = "title"
    /\ top_items[1].data = top_items[2].data
    /\ Len(NormalizedTitle(top_items[1].data)) = 7
    /\ Len(NormalizedTitle(top_items[3].data)) = 8
    /\ duplicate_groups = <<>>

\* the place of the record with key k in the list main hands to merge_group
InputPosition(k) ==
    CHOOSE i \in 1..Len(duplicate_groups[gi].entries) :
        duplicate_groups[gi].entries[i].key = k

\* C24: among the bundles of a group with the maximal facet tuple the
\* survivor is the first of the input list, and bundles with equal facet
\* tuples are ranked in their input order.
C24_FinalTieKeepsFirst ==
    Ranked =>
        /\ \A k \in GroupKeys :
              FacetTuple(store, k) = FacetTuple(store, winner.entry.key) =>
                  InputPosition(winner.entry.key) <= InputPosition(k)
        /\ \A a, b \in 1..Len(bundles_sorted) :
              (/\ a < b
               /\ FacetTuple(store, bundles_sorted[a].entry.key)
                     = FacetTuple(store, bundles_sorted[b].entry.key)) =>
                  InputPosition(bundles_sorted[a].entry.key)
                      < InputPosition(bundles_sorted[b].entry.key)

C24_Witness ==
    /\ Ranked
    /\ Len(bundles_sorted) = 3
    /\ FacetTuple(store, 2) = FacetTuple(store, 3)
    /\ TupleLess(FacetTuple(store, 1), FacetTuple(store, 2))
    /\ FacetTuple(store, 2)[2] > 0
    /\ [i \in 1..3 |-> bundles_sorted[i].entry.key] = <<2, 3, 1>>

\* the last-modified text of the record with key k is missing or unparsable
CorruptModified(k) == store[k].data.dateModified.kind # "utc"

\* the last-modified text of the record with key k is valid and after the epoch
ValidModified(k) ==
    /\ store[k].data.dateModified.kind = "utc"
    /\ store[k].data.dateModified.t > 0

TieOnChildren(j, k) ==
    \A f \in 1..3 : FacetTuple(store, j)[f] = FacetTuple(store, k)[f]

\* C25: of two bundles of a group that tie on has_primary_file,
\* attachment_count and note_count, one whose last-modified timestamp is
\* missing or unparsable is never ranked before one whose last-modified
\* timestamp is valid and later than the epoch.
C25_CorruptTimestampsNeverWin ==
    Ranked =>
        \A a, b \in 1..Len(bundles_sorted) :
            LET j == bundles_sorted[a].entry.key
                k == bundles_sorted[b].entry.key
            IN  (TieOnChildren(j, k) /\ CorruptModified(j) /\ ValidModified(k))
                    => b < a

C25_Witness ==
    /\ Ranked
    /\ Len(bundles_sorted) = 2
    /\ winner.entry.key = 2
    /\ ValidModified(2)
    /\ store[1].data.dateModified = Garbled
    /\ TieOnChildren(1, 2)
    /\ FacetTuple(store, 1)[3] = 1

\* merge_group lines 319-344 for the losers in the given order: acc holds
\* winner_children, union_collections and existing_tags
RECURSIVE MergeLosers(_, _)
MergeLosers(losers, acc) ==
    IF losers = <<>> THEN acc
    ELSE LET loser == Head(losers)
             unique == dedupe_children(acc.children, Incoming(loser))
         IN  MergeLosers(Tail(losers),
                 [children |-> acc.children \o unique,
                  collections |->
                      acc.collections \cup Range(loser.entry.data.collections),
                  tags |-> AddLoserTags(loser.entry.data.tags, acc.tags)])

\* the survivor after a live merge that takes the losers in the order p: the
\* children attached to it, its collections and its tags
MergedIn(p) ==
    LET losers == [i \in 1..(Len(bundles_sorted) - 1) |-> bundles_sorted[p[i] + 1]]
        own == winner.entry.data
        r == MergeLosers(losers,
                 [children |-> winner.children,
                  collections |-> Range(own.collections),
                  tags |-> WinnerTags(own.tags, <<>>)])
        changed == \/ r.collections # Range(own.collections)
                   \/ Len(r.tags) # Len(own.tags)
    IN  [children |-> r.children,
         collections |-> IF changed THEN r.collections ELSE Range(own.collections),
         tags |-> IF changed THEN r.tags ELSE own.tags]

LoserOrders == Orders(Len(bundles_sorted) - 1)

\* the survivor in the library: the children attached to it, in key order
AttachedChildren == fetch_children(store, winner.entry.key)

LiveMergeCompleted == MergeCompleted /\ ~args.dry_run /\ pc = "done"

GroupMates(k) ==
    UNION {EntryKeys(duplicate_groups[g]) \ {k} :
              g \in {h \in 1..Len(duplicate_groups) :
                         k \in EntryKeys(duplicate_groups[h])}}

AcceptedDeleteBefore(u, k) ==
    \E d \in 1..(u - 1) : log[d].op = "delete" /\ log[d].key = k /\ log[d].ok

RejectedMove(i) == log[i].op \in {"reparent", "delete"} /\ ~log[i].ok

\* C27: the update of the survivor is issued only after the delete of every
\* loser of its group was accepted; after a rejected re-parent or delete in a
\* group no update of that group's survivor is issued, and the losers whose
\* delete was accepted before stay out of the library.
C27_SurvivorUpdateComesLast ==
    /\ \A u \in 1..Len(log) :
          log[u].op = "update" =>
              /\ \A k \in GroupMates(log[u].key) : AcceptedDeleteBefore(u, k)
              /\ \A i \in 1..(u - 1) : ~RejectedMove(i)
    /\ (\E i \in 1..Len(log) : RejectedMove(i)) =>
          /\ pc = "failed"
          /\ \A u \in 1..Len(log) : log[u].op # "update"
    /\ \A d \in 1..Len(log) :
          (log[d].op = "delete" /\ log[d].ok /\ ~log[d].dry) =>
              log[d].key \notin DOMAIN store

C27_Witness ==
    /\ pc = "failed"
    /\ Len(bundles_sorted) = 3
    /\ WinnerChanged
    /\ \E d \in 1..Len(log) :
          /\ log[d].op = "delete" /\ log[d].ok
          /\ log[d].key = loser_bundles[1].entry.key
          /\ \E c \in 1..(d - 1) : log[c].op = "reparent" /\ log[c].ok
    /\ log[Len(log)].op = "delete" /\ ~log[Len(log)].ok
    /\ log[Len(log)].key = loser_bundles[2].entry.key
    /\ loser_bundles[1].entry.key \notin DOMAIN store
    /\ loser_bundles[2].entry.key \in DOMAIN store

\* the write requests the run has sent
Writes ==
    {i \in 1..Len(log) :
        log[i].op \in {"reparent", "delete", "update"} /\ ~log[i].dry}

\* C28: in a run with no other actor no record is the target of two writes,
\* no record is in two groups or twice in one, the survivor of a group is not
\* among its losers, and no write is rejected.
C28_AtMostOneWritePerRecord ==
    /\ \A i, j \in Writes : log[i].key = log[j].key => i = j
    /\ \A g, h \in 1..Len(duplicate_groups) :
          g # h => EntryKeys(duplicate_groups[g])
                       \cap EntryKeys(duplicate_groups[h]) = {}
    /\ \A g \in 1..Len(duplicate_groups) :
          Cardinality(EntryKeys(duplicate_groups[g]))
              = Len(duplicate_groups[g].entries)
    /\ \A i, j \in Writes :
          (log[i].op = "update" /\ log[j].op = "delete") =>
              log[i].key # log[j].key
    /\ \A i \in Writes : log[i].ok

C28_Witness ==
    /\ pc = "done"
    /\ Len(duplicate_groups) = 2
    /\ \A o \in {"reparent", "delete", "update"} :
          \E i \in Writes : log[i].op = o /\ log[i].ok
    /\ Cardinality({i \in Writes : log[i].op = "delete"}) = 2

\* what mode auto keys a record by: its identifier, else its link, else its
\* title
KindOf(data) ==
    IF NormalizedIdentifier(data) # <<>> THEN "doi"
    ELSE IF NormalizedLink(data) # <<>> THEN "url"
    ELSE IF UsableTitle(data) THEN "title"
    ELSE "none"

\* C29: under mode auto two listed records keyed by different kinds are not
\* in the same group, whatever their titles and key values.
C29_KeyKindsNeverMix ==
    (Scanned /\ args.group_by = "auto") =>
        \A i, j \in Papers :
            KindOf(top_items[i].data) # KindOf(top_items[j].data) =>
                ~SameGroup(i, j)

C29_Witness ==
    /\ Scanned /\ args.group_by = "auto"
    /\ Len(top_items) = 2
    /\ NormalizedIdentifier(top_items[1].data) = <<"x">>
    /\ KindOf(top_items[2].data) = "url"
    /\ NormalizedLink(top_items[2].data) = <<"x">>
    /\ UsableTitle(top_items[1].data)
    /\ title_key(top_items[1].data) = title_key(top_items[2].data)
    /\ ~SameGroup(1, 2)

\* the record of the group g that ranks first, read off the library as it was
\* when the run began
SurvivorOf(g) ==
    CHOOSE k \in EntryKeys(g) :
        \A j \in EntryKeys(g) :
            /\ ~TupleLess(FacetTuple(store0, k), FacetTuple(store0, j))
            /\ FacetTuple(store0, j) = FacetTuple(store0, k) =>
                  Position(k) <= Position(j)

Survivors == {SurvivorOf(duplicate_groups[g]) : g \in 1..Len(duplicate_groups)}

\* the records the run may write: the given losers, their children, the
\* other records of the groups
Framed(k, losers) ==
    IF k \in ChildKeys THEN store0[k].data.parentItem \in losers
    ELSE k \in Grouped

\* C30: the writes of a run are re-parents of children of losers, deletes of
\* losers and at most one update per survivor; records outside every group,
\* their children and the children a survivor had from the start are left as
\* they were.
C30_FrameOfARun ==
    LET survivors == Survivors
        losers == Grouped \ survivors
    IN  /\ \A i \in Writes :
              CASE log[i].op = "reparent" ->
                      /\ log[i].from \in losers
                      /\ store0[log[i].key].data.parentItem = log[i].from
                [] log[i].op = "delete" -> log[i].key \in losers
                [] OTHER ->
                      /\ log[i].key \in survivors
                      /\ \A j \in Writes :
                            (log[j].op = "update" /\ log[j].key = log[i].key)
                                => j = i
        /\ \A k \in DOMAIN store0 :
              ~Framed(k, losers) => k \in DOMAIN store /\ store[k] = store0[k]

C30_Witness ==
    /\ pc = "done"
    /\ \A o \in {"reparent", "delete", "update"} :
          \E i \in Writes : log[i].op = o
    /\ \E k \in DOMAIN store0 \ ChildKeys : k \notin Grouped
    /\ \E s \in Survivors :
          \E c \in ChildrenOf(store0, s) : store[c] = store0[c]
    /\ store # store0

====
